---- MODULE Spec2Model ----
(***************************************************************************)
(* Model of the Code42 forensic-file-search client: the FFSQuery class and *)
(* main() of ffs_search.py, and the functions and main() of the older      *)
(* script ffs-search.py.                                                    *)
(*                                                                         *)
(* Python values are tagged records [type, v]; a dict is a TLA+ record     *)
(* (a function on its keys), a list a sequence, None the tagged PyNone.    *)
(* An attribute or string that Python holds as None is the string None.    *)
(***************************************************************************)
EXTENDS Integers, Sequences, FiniteSets, TLC

VARIABLES
    auth_token,     \* FFSQuery.auth_token (older script: main's auth_token)
    logged_in,      \* FFSQuery.logged_in
    query_payload,  \* FFSQuery.query_payload (older script: main's ffs_query)
    last,           \* the last call made: its arguments, outcome and HTTP exchange
    pending,        \* arguments of a build_query_payload call about to be made
    pc,             \* position of main() in a command-line run
    script,         \* which script runs: "new" (ffs_search.py) or "old" (ffs-search.py)
    args,           \* the parsed command line of the run
    query_values,   \* main's query_values
    results,        \* main's results
    net,            \* every HTTP request the run has issued, in order
    out             \* what the run has printed or written

vars == <<auth_token, logged_in, query_payload, last, pending, pc, script, args,
          query_values, results, net, out>>

objvars == <<auth_token, logged_in, query_payload>>
mainvars == <<pc, script, args, query_values, results, net, out>>

----------------------------------------------------------------------------
(* Bounds of the model *)

\* longest list of search values handed to build_query_payload
MaxVals == 2

\* most values given after --values on a command line
MaxCliValues == 1

----------------------------------------------------------------------------
(* Python values *)

None == "None"
PyNone == [type |-> "NoneType", v |-> None]
PyDict(d) == [type |-> "dict", v |-> d]
PyStr(s) == [type |-> "str", v |-> s]
\* a string or None as a Python value
Py(s) == IF s = None THEN PyNone ELSE PyStr(s)
PyInt(n) == [type |-> "int", v |-> n]
PyList(l) == [type |-> "list", v |-> l]
PyBool(b) == [type |-> "bool", v |-> b]
\* the attribute has not been assigned: reading it raises AttributeError
NoAttr == [type |-> "unset"]

isinstance_dict(x) == x.type = "dict"

\* outcome of a call: a returned value or a raised exception
Return(x) == [kind |-> "return", value |-> x]
Raise(e) == [kind |-> "raise", value |-> PyStr(e)]

\* a response body: text that is well-formed JSON for doc, or not JSON at all
JsonText(doc) == [wellformed |-> TRUE, doc |-> doc]
NotJson == [wellformed |-> FALSE, doc |-> PyNone]

json_loads(text) ==
    IF text.wellformed THEN Return(text.doc) ELSE Raise("ValueError")

Response(status, text) == [status_code |-> status, text |-> text]

Truthy(s) == s # None /\ s # ""

----------------------------------------------------------------------------
(* build_query_payload: the mapping tables *)

mapper ==
    [md5 |-> "md5Checksum", sha256 |-> "sha256Checksum", filename |-> "fileName",
     hostname |-> "osHostName", filepath |-> "filePath", fileowner |-> "fileOwner",
     actor |-> "actor", sharedwith |-> "sharedWith", event_id |-> "eventId",
     exposure |-> "exposure", device_vendor |-> "removableMediaVendor",
     device_name |-> "removableMediaName", device_sn |-> "removableMediaSerialNumber",
     process_owner |-> "processOwner", process_name |-> "processName",
     sync_destination |-> "syncDestination"]

source_mapper ==
    [google |-> "GoogleDrive", onedrive |-> "OneDrive", endpoint |-> "Endpoint"]

exposure_mapper ==
    [removable_media |-> "RemovableMedia", application_read |-> "ApplicationRead",
     cloud_storage |-> "CloudStorage"]

----------------------------------------------------------------------------
(* FFSQuery.build_query_payload *)

\* arguments of one build_query_payload call
BuildArgs(search_type, search_values, source, max_results, events_before, events_after) ==
    [search_type |-> search_type, search_values |-> search_values, source |-> source,
     max_results |-> max_results, events_before |-> events_before,
     events_after |-> events_after]

\* mapper[search_type] or exposure_mapper[search_value] raises KeyError
filter_raises(search_type, search_value) ==
    \/ search_type \notin DOMAIN mapper
    \/ search_type = "exposure" /\ search_value \notin DOMAIN exposure_mapper

\* filter_value without the exposure table: the raw value is emitted
filter_value_raw(search_type, search_value) == search_value

\* the value of one filter: exposure values go through exposure_mapper
filter_value(search_type, search_value) ==
    IF search_type = "exposure" THEN exposure_mapper[search_value] ELSE search_value

\* one pass of the loop over search_values
ffs_filter(search_type, search_value) ==
    [operator |-> "IS", term |-> mapper[search_type],
     value |-> filter_value(search_type, search_value)]

\* the loop over search_values raises at some value
loop_raises(search_type, search_values) ==
    \E i \in 1..Len(search_values) : filter_raises(search_type, search_values[i])

\* ffs_filters joining the values with AND
ffs_filters_and(search_type, search_values) ==
    IF search_values = <<>>
    THEN [filterClause |-> "AND"]
    ELSE [filters |-> [i \in 1..Len(search_values) |->
                          ffs_filter(search_type, search_values[i])],
          filterClause |-> "AND"]

\* the value group: the key 'filters' exists only once a filter was appended
ffs_filters(search_type, search_values) ==
    IF search_values = <<>>
    THEN [filterClause |-> "OR"]
    ELSE [filters |-> [i \in 1..Len(search_values) |->
                          ffs_filter(search_type, search_values[i])],
          filterClause |-> "OR"]

has_source(source) == source # "all" /\ source # None

source_filters(source) ==
    [filters |-> <<[operator |-> "IS", term |-> "source",
                    value |-> source_mapper[source]]>>]

before_filters(events_before) ==
    [filters |-> <<[operator |-> "ON_OR_BEFORE", term |-> "eventTimestamp",
                    value |-> events_before]>>]

after_filters(events_after) ==
    [filters |-> <<[operator |-> "ON_OR_AFTER", term |-> "eventTimestamp",
                    value |-> events_after]>>]

\* the groups appended after the value group, in the order of the code
extra_groups(a) ==
    (IF has_source(a.source) THEN <<source_filters(a.source)>> ELSE <<>>)
    \o (IF Truthy(a.events_before) THEN <<before_filters(a.events_before)>> ELSE <<>>)
    \o (IF Truthy(a.events_after) THEN <<after_filters(a.events_after)>> ELSE <<>>)

\* groupClause is assigned in each of the three optional blocks
sets_group_clause(a) ==
    has_source(a.source) \/ Truthy(a.events_before) \/ Truthy(a.events_after)

\* The whole call: [ret |-> outcome, query_payload |-> self.query_payload afterwards].
\* The payload is reset to {} with an empty 'groups' first, so a KeyError leaves what
\* had been built up to the raise.
build_query_payload(a) ==
    IF loop_raises(a.search_type, a.search_values)
    THEN [ret |-> Raise("KeyError"), query_payload |-> PyDict([groups |-> <<>>])]
    ELSE IF has_source(a.source) /\ a.source \notin DOMAIN source_mapper
    THEN [ret |-> Raise("KeyError"),
          query_payload |-> PyDict([groups |-> <<ffs_filters(a.search_type, a.search_values)>>])]
    ELSE LET groups == <<ffs_filters(a.search_type, a.search_values)>> \o extra_groups(a)
             payload == IF sets_group_clause(a)
                        THEN [groups |-> groups, groupClause |-> "AND",
                              pgNum |-> 1, pgSize |-> a.max_results]
                        ELSE [groups |-> groups, pgNum |-> 1, pgSize |-> a.max_results]
         IN [ret |-> Return(PyDict(payload)), query_payload |-> PyDict(payload)]

----------------------------------------------------------------------------
(* ffs-search.py: build_query_payload(ffs_query, search_type, search_values) *)

old_mapper ==
    [md5 |-> "md5Checksum", filename |-> "fileName", hostname |-> "osHostName",
     filepath |-> "filePath"]

old_ffs_filters(search_type, search_values) ==
    IF search_values = <<>>
    THEN [filterClause |-> "OR"]
    ELSE [filters |-> [i \in 1..Len(search_values) |->
                          [operator |-> "IS", term |-> old_mapper[search_type],
                           value |-> search_values[i]]],
          filterClause |-> "OR"]

\* main always passes ffs_query = {}: 'groups' is created, then the one group appended
old_build_query_payload(search_type, search_values) ==
    IF search_values # <<>> /\ search_type \notin DOMAIN old_mapper
    THEN [ret |-> Raise("KeyError"), query_payload |-> PyDict([groups |-> <<>>])]
    ELSE LET payload == [groups |-> <<old_ffs_filters(search_type, search_values)>>,
                         pgNum |-> 1, pgSize |-> 100]
         IN [ret |-> Return(PyDict(payload)), query_payload |-> PyDict(payload)]

----------------------------------------------------------------------------
(* The HTTP exchange *)

GetLoginConfiguration == [method |-> "GET", url |-> "LoginConfiguration"]
GetLoginUser == [method |-> "GET", url |-> "login-user"]
PostFileEvent(token, payload) ==
    [method |-> "POST", url |-> "fileevent", authorization |-> token, json |-> payload]

\* d[key] of a parsed body: KeyError or TypeError when d has no such key
has_key(doc, key) == isinstance_dict(doc) /\ key \in DOMAIN doc.v

----------------------------------------------------------------------------
(* FFSQuery._get_login_config, _get_auth_token, do_login
   (ffs-search.py: get_login_config, get_auth_token) *)

\* the login type of the user, "Failed" when the status is not 200
get_login_config(response) ==
    IF response.status_code # 200
    THEN Return(PyStr("Failed"))
    ELSE IF json_loads(response.text).kind = "raise"
    THEN json_loads(response.text)
    ELSE IF ~has_key(json_loads(response.text).value, "loginType")
    THEN Raise("KeyError")
    ELSE Return(PyStr(json_loads(response.text).value.v.loginType))

\* the v3 user token, None when the status is not 200
get_auth_token(response) ==
    IF response.status_code # 200
    THEN Return(PyNone)
    ELSE IF json_loads(response.text).kind = "raise"
    THEN json_loads(response.text)
    ELSE IF ~has_key(json_loads(response.text).value, "v3_user_token")
    THEN Raise("KeyError")
    ELSE Return(Py(json_loads(response.text).value.v.v3_user_token))

\* do_login without the early return on the login type
do_login_no_config_check(config_response, token_response) ==
    LET token == get_auth_token(token_response)
    IN  IF token.kind = "raise"
        THEN [ret |-> token, auth_token |-> auth_token, logged_in |-> logged_in,
              reqs |-> <<GetLoginConfiguration, GetLoginUser>>,
              resps |-> <<config_response, token_response>>]
        ELSE IF token.value.v = None
        THEN [ret |-> Return(PyBool(FALSE)), auth_token |-> None,
              logged_in |-> logged_in,
              reqs |-> <<GetLoginConfiguration, GetLoginUser>>,
              resps |-> <<config_response, token_response>>]
        ELSE [ret |-> Return(PyBool(TRUE)), auth_token |-> token.value.v,
              logged_in |-> TRUE,
              reqs |-> <<GetLoginConfiguration, GetLoginUser>>,
              resps |-> <<config_response, token_response>>]

\* do_login without the test of the token: a refused exchange counts as a login
do_login_token_unchecked(config_response, token_response) ==
    LET login_config == get_login_config(config_response)
        token == get_auth_token(token_response)
    IN  IF login_config.kind = "raise"
        THEN [ret |-> login_config, auth_token |-> auth_token, logged_in |-> logged_in,
              reqs |-> <<GetLoginConfiguration>>, resps |-> <<config_response>>]
        ELSE IF login_config.value.v # "LOCAL"
        THEN [ret |-> Return(PyBool(FALSE)), auth_token |-> auth_token,
              logged_in |-> logged_in,
              reqs |-> <<GetLoginConfiguration>>, resps |-> <<config_response>>]
        ELSE IF token.kind = "raise"
        THEN [ret |-> token, auth_token |-> auth_token, logged_in |-> logged_in,
              reqs |-> <<GetLoginConfiguration, GetLoginUser>>,
              resps |-> <<config_response, token_response>>]
        ELSE [ret |-> Return(PyBool(TRUE)), auth_token |-> token.value.v,
              logged_in |-> TRUE,
              reqs |-> <<GetLoginConfiguration, GetLoginUser>>,
              resps |-> <<config_response, token_response>>]

\* The whole call, given what the two endpoints would answer:
\* [ret, auth_token, logged_in, reqs, resps], the attributes as they are afterwards
\* and the requests issued with the responses received.
do_login(config_response, token_response) ==
    LET login_config == get_login_config(config_response)
        token == get_auth_token(token_response)
    IN  IF login_config.kind = "raise"
        THEN [ret |-> login_config, auth_token |-> auth_token, logged_in |-> logged_in,
              reqs |-> <<GetLoginConfiguration>>, resps |-> <<config_response>>]
        ELSE IF login_config.value.v # "LOCAL"
        THEN [ret |-> Return(PyBool(FALSE)), auth_token |-> auth_token,
              logged_in |-> logged_in,
              reqs |-> <<GetLoginConfiguration>>, resps |-> <<config_response>>]
        ELSE IF token.kind = "raise"
        THEN [ret |-> token, auth_token |-> auth_token, logged_in |-> logged_in,
              reqs |-> <<GetLoginConfiguration, GetLoginUser>>,
              resps |-> <<config_response, token_response>>]
        ELSE IF token.value.v = None
        THEN [ret |-> Return(PyBool(FALSE)), auth_token |-> None,
              logged_in |-> logged_in,
              reqs |-> <<GetLoginConfiguration, GetLoginUser>>,
              resps |-> <<config_response, token_response>>]
        ELSE [ret |-> Return(PyBool(TRUE)), auth_token |-> token.value.v,
              logged_in |-> TRUE,
              reqs |-> <<GetLoginConfiguration, GetLoginUser>>,
              resps |-> <<config_response, token_response>>]

----------------------------------------------------------------------------
(* FFSQuery.load_query_payload_from_json *)

\* load_query_payload_from_json without the isinstance check
load_query_payload_unchecked(json_payload) ==
    [ret |-> Return(PyBool(TRUE)), query_payload |-> json_payload]

\* [ret, query_payload]: a dict is adopted as it is, anything else is refused
load_query_payload_from_json(json_payload) ==
    IF isinstance_dict(json_payload)
    THEN [ret |-> Return(PyBool(TRUE)), query_payload |-> json_payload]
    ELSE [ret |-> Return(PyBool(FALSE)), query_payload |-> query_payload]

----------------------------------------------------------------------------
(* FFSQuery.do_search *)

\* do_search taking every 2xx status for a success
do_search_any_2xx(response) ==
    IF query_payload = NoAttr
    THEN [ret |-> Raise("AttributeError"), reqs |-> <<>>, resps |-> <<>>]
    ELSE IF response.status_code \notin 200..299
    THEN [ret |-> Return(PyNone),
          reqs |-> <<PostFileEvent(auth_token, query_payload)>>, resps |-> <<response>>]
    ELSE [ret |-> json_loads(response.text),
          reqs |-> <<PostFileEvent(auth_token, query_payload)>>, resps |-> <<response>>]

\* [ret, reqs, resps]: reading an unassigned query_payload raises AttributeError
\* before anything is sent
do_search(response) ==
    IF query_payload = NoAttr
    THEN [ret |-> Raise("AttributeError"), reqs |-> <<>>, resps |-> <<>>]
    ELSE IF query_payload = PyNone
    THEN [ret |-> Return(PyNone), reqs |-> <<>>, resps |-> <<>>]
    ELSE IF response.status_code # 200
    THEN [ret |-> Return(PyNone),
          reqs |-> <<PostFileEvent(auth_token, query_payload)>>, resps |-> <<response>>]
    ELSE [ret |-> json_loads(response.text),
          reqs |-> <<PostFileEvent(auth_token, query_payload)>>, resps |-> <<response>>]

\* ffs-search.py: do_search(session, base_url, payload, auth_token)
old_do_search(response) ==
    IF response.status_code # 200
    THEN [ret |-> Return(PyNone),
          reqs |-> <<PostFileEvent(auth_token, query_payload)>>, resps |-> <<response>>]
    ELSE [ret |-> json_loads(response.text),
          reqs |-> <<PostFileEvent(auth_token, query_payload)>>, resps |-> <<response>>]

----------------------------------------------------------------------------
(* What the callers and the servers may supply *)

StatusCodes == {200, 201, 500}

\* a body without any of the keys the client reads
ErrorText == JsonText(PyDict([error |-> "denied"]))

ConfigTexts ==
    {JsonText(PyDict([loginType |-> "LOCAL"])),
     JsonText(PyDict([loginType |-> "CLOUD_SSO"])), ErrorText, NotJson}
TokenTexts ==
    {JsonText(PyDict([v3_user_token |-> "token1"])),
     JsonText(PyDict([v3_user_token |-> None])), ErrorText, NotJson}

Event1 == [md5Checksum |-> "m1", sha256Checksum |-> "s1"]
Event2 == [md5Checksum |-> "m2"]
SearchTexts ==
    {JsonText(PyDict([fileEvents |-> <<Event1, Event2>>, totalCount |-> 2])),
     JsonText(PyDict([fileEvents |-> <<>>, totalCount |-> 0])),
     ErrorText, JsonText(PyNone), NotJson}

ConfigResponses == {Response(st, tx) : st \in StatusCodes, tx \in ConfigTexts}
TokenResponses == {Response(st, tx) : st \in StatusCodes, tx \in TokenTexts}
SearchResponses == {Response(st, tx) : st \in StatusCodes, tx \in SearchTexts}

\* every list over S of at most n elements
Lists(S, n) == UNION {[1..k -> S] : k \in 0..n}

\* what load_query_payload_from_json may be handed
RawQuery1 == PyDict([groups |-> <<[filters |-> <<[operator |-> "IS", term |-> "actor",
                                                  value |-> "a@example.com"]>>,
                                   filterClause |-> "AND"]>>,
                     pgNum |-> 2, pgSize |-> 5])
JsonPayloads ==
    {RawQuery1, PyDict([anything |-> "at all"]), PyDict(<<>>), PyStr("groups"),
     PyInt(7), PyList(<<"groups">>), PyList(<<>>), PyNone}

\* arguments of build_query_payload, for a caller of the class
LibSearchTypes == {"md5", "exposure", "raw"}
LibValues == {"abc123", "removable_media"}
LibBuildArgs ==
    {BuildArgs(ty, vs, so, 100, eb, ea) :
        ty \in LibSearchTypes, vs \in Lists(LibValues, MaxVals),
        so \in {"all", "onedrive"}, eb \in {None, "2023-01-01"}, ea \in {None}}

\* arguments of build_query_payload, across all its parameters
SearchTypes == DOMAIN mapper \cup {"raw", "bogus"}
Values == {"abc123", "removable_media", "application_read", "cloud_storage"}
Sources == {None, "all", "google", "onedrive", "endpoint", "dropbox"}
AllBuildArgs ==
    {BuildArgs(ty, vs, so, mr, eb, ea) :
        ty \in SearchTypes, vs \in Lists(Values, MaxVals), so \in Sources,
        mr \in {0, 1, 10000}, eb \in {None, "", "2023-01-01"},
        ea \in {None, "2023-02-01"}}

----------------------------------------------------------------------------
(* A caller of the FFSQuery class: any sequence of calls on one object *)

NoCall == [op |-> "none", arg |-> PyNone, ret |-> Return(PyNone),
           reqs |-> <<>>, resps |-> <<>>]

\* FFSQuery.__init__: no token, not logged in, query_payload not assigned
InitObject ==
    /\ auth_token = None
    /\ logged_in = FALSE
    /\ query_payload = NoAttr
    /\ last = NoCall

NoRun ==
    /\ pc = "none"
    /\ script = "none"
    /\ args = <<>>
    /\ query_values = PyNone
    /\ results = PyNone
    /\ net = <<>>
    /\ out = <<>>

Init == InitObject /\ NoRun /\ pending = <<>>

CallDoLogin(config_response, token_response) ==
    LET r == do_login(config_response, token_response)
    IN  /\ auth_token' = r.auth_token
        /\ logged_in' = r.logged_in
        /\ last' = [op |-> "do_login", arg |-> PyNone, ret |-> r.ret,
                    reqs |-> r.reqs, resps |-> r.resps]
        /\ UNCHANGED query_payload

CallBuildQueryPayload(a) ==
    LET r == build_query_payload(a)
    IN  /\ query_payload' = r.query_payload
        /\ last' = [op |-> "build_query_payload", arg |-> a, ret |-> r.ret,
                    reqs |-> <<>>, resps |-> <<>>]
        /\ UNCHANGED <<auth_token, logged_in>>

CallLoadQueryPayloadFromJson(json_payload) ==
    LET r == load_query_payload_from_json(json_payload)
    IN  /\ query_payload' = r.query_payload
        /\ last' = [op |-> "load_query_payload_from_json", arg |-> json_payload,
                    ret |-> r.ret, reqs |-> <<>>, resps |-> <<>>]
        /\ UNCHANGED <<auth_token, logged_in>>

CallDoSearch(response) ==
    LET r == do_search(response)
    IN  /\ last' = [op |-> "do_search", arg |-> PyNone, ret |-> r.ret,
                    reqs |-> r.reqs, resps |-> r.resps]
        /\ UNCHANGED objvars

DoLogin ==
    /\ \E c \in ConfigResponses, t \in TokenResponses : CallDoLogin(c, t)
    /\ UNCHANGED <<pending, mainvars>>

BuildQueryPayload ==
    /\ \E a \in LibBuildArgs : CallBuildQueryPayload(a)
    /\ UNCHANGED <<pending, mainvars>>

LoadQueryPayloadFromJson ==
    /\ \E j \in JsonPayloads : CallLoadQueryPayloadFromJson(j)
    /\ UNCHANGED <<pending, mainvars>>

DoSearch ==
    /\ \E r \in SearchResponses : CallDoSearch(r)
    /\ UNCHANGED <<pending, mainvars>>

Next == DoLogin \/ BuildQueryPayload \/ LoadQueryPayloadFromJson \/ DoSearch

Spec == Init /\ [][Next]_vars

----------------------------------------------------------------------------
(* build_query_payload on its own: one call on a fresh object, for every
   combination of arguments *)

InitBuild == InitObject /\ NoRun /\ pending \in {<<a>> : a \in AllBuildArgs}

BuildPending ==
    /\ pending # <<>>
    /\ CallBuildQueryPayload(Head(pending))
    /\ pending' = <<>>
    /\ UNCHANGED mainvars

\* the older script's function on the same search type and values
OldBuildPending ==
    /\ pending # <<>>
    /\ LET a == Head(pending)
           r == old_build_query_payload(a.search_type, a.search_values)
       IN  /\ query_payload' = r.query_payload
           /\ last' = [op |-> "old_build_query_payload", arg |-> a, ret |-> r.ret,
                       reqs |-> <<>>, resps |-> <<>>]
    /\ pending' = <<>>
    /\ UNCHANGED <<auth_token, logged_in, mainvars>>

NextBuild == BuildPending \/ OldBuildPending

SpecBuild == InitBuild /\ [][NextBuild]_vars

----------------------------------------------------------------------------
(* main(): one command-line run of ffs_search.py ("new") or ffs-search.py ("old") *)

ValuesLimit == 1024
MaxResultsLimit == 10000

\* strings of the command line and of input files that json.loads can parse
RawQueryString == "{raw query}"
RawListString == "[raw list]"
json_loads_str(s) ==
    IF s = RawQueryString THEN Return(RawQuery1)
    ELSE IF s = RawListString THEN Return(PyList(<<"groups">>))
    ELSE Raise("ValueError")

\* re.compile(r"^\d{4}\-\d{2}\-\d{2}").match, on the date strings of the model
date_pattern_match(s) == s \in {"2023-01-01", "2023-02-01"}

\* the input files of the model: which can be opened, their text and its lines
FileOpens(in_file) == in_file \in {"values.txt", "query.json"}
FileText(in_file) ==
    IF in_file = "query.json" THEN RawQueryString ELSE "abc123\nremovable_media"
splitlines(text) ==
    IF text = "abc123\nremovable_media" THEN <<"abc123", "removable_media">> ELSE <<text>>

\* read_in_file: the whole text for a raw search, the list of lines otherwise
read_in_file(in_file, search_type) ==
    IF ~FileOpens(in_file) THEN PyNone
    ELSE IF search_type = "raw" THEN PyStr(FileText(in_file))
    ELSE PyList(splitlines(FileText(in_file)))

\* The sanity checks on the parsed options: the error printed, or None to go on.
\* ffs-search.py has neither --max_results nor the date options.
sanity_checks(sc, a) ==
    IF a.values.type = "NoneType" /\ a.in_file = None THEN "Error: no values"
    ELSE IF a.values.type # "NoneType" /\ a.values.v # <<>> /\ Len(a.values.v) > ValuesLimit
    THEN "Error: too many values"
    ELSE IF a.count_only /\ a.out_filter # None THEN "Error: count and out_filter"
    ELSE IF sc = "old" THEN None
    ELSE IF a.max_results > MaxResultsLimit THEN "Error: max_results"
    ELSE IF Truthy(a.events_before) /\ ~date_pattern_match(a.events_before)
    THEN "Error: events_before"
    ELSE IF Truthy(a.events_after) /\ ~date_pattern_match(a.events_after)
    THEN "Error: events_after"
    ELSE None

\* query_values: from the file if one was given, else from --values
\* ([0] of an empty list raises IndexError)
read_query_values(a) ==
    IF Truthy(a.in_file)
    THEN Return(read_in_file(a.in_file, a.search_type))
    ELSE IF a.search_type = "raw"
    THEN IF a.values.v = <<>> THEN Raise("IndexError") ELSE Return(PyStr(a.values.v[1]))
    ELSE Return(a.values)

\* the HTTP exchanges of a call, to append to the run's log
Exchanges(call) == [i \in 1..Len(call.reqs) |-> [req |-> call.reqs[i], resp |-> call.resps[i]]]

Stdout(x) == [to |-> "stdout", data |-> x]
File(f, x) == [to |-> f, data |-> x]

MainSearchTypes(sc) == IF sc = "new" THEN {"md5", "exposure", "raw"} ELSE {"md5", "raw"}
MainValues == {"removable_media", RawQueryString, RawListString}
MainArgs(sc) ==
    [search_type : MainSearchTypes(sc),
     values : {PyNone} \cup {PyList(l) : l \in Lists(MainValues, MaxCliValues)},
     in_file : {None, "values.txt", "query.json", "missing.txt"},
     source : {"all"},
     max_results : IF sc = "new" THEN {-1, 0, 1, 10000, 10001} ELSE {100},
     events_before : IF sc = "new" THEN {None, "2023-01-01", "yesterday"} ELSE {None},
     events_after : IF sc = "new" THEN {None, "2023-02-01"} ELSE {None},
     count_only : BOOLEAN,
     out_filter : {None, "md5"},
     out_file : {None, "out.json"}]

InitMain ==
    /\ InitObject
    /\ pending = <<>>
    /\ script \in {"new", "old"}
    /\ args \in MainArgs(script)
    /\ pc = "start"
    /\ query_values = PyNone
    /\ results = PyNone
    /\ net = <<>>
    /\ out = <<>>

\* sys.exit() after printing an error
Exit(msg) == pc' = "exit" /\ out' = Append(out, Stdout(PyStr(msg)))
\* an exception nothing catches
Crash == pc' = "crash" /\ UNCHANGED out

\* the sanity checks
ParseArgs ==
    /\ pc = "start"
    /\ IF sanity_checks(script, args) # None
       THEN Exit(sanity_checks(script, args))
       ELSE pc' = "input" /\ UNCHANGED out
    /\ UNCHANGED <<objvars, last, pending, script, args, query_values, results, net>>

\* parse in_file if passed, otherwise read values
ReadInput ==
    /\ pc = "input"
    /\ LET r == read_query_values(args)
       IN  IF r.kind = "raise" THEN Crash /\ UNCHANGED query_values
           ELSE IF r.value.type = "NoneType"
           THEN Exit("Error parsing values in in_file") /\ UNCHANGED query_values
           ELSE pc' = "login" /\ query_values' = r.value /\ UNCHANGED out
    /\ UNCHANGED <<objvars, last, pending, script, args, results, net>>

\* ffs-search.py main, lines 140-150: the same handshake, inline; auth_token is
\* main's local variable
old_login(config_response, token_response) ==
    LET login_config == get_login_config(config_response)
        token == get_auth_token(token_response)
    IN  IF login_config.kind = "raise"
        THEN [ret |-> login_config, auth_token |-> auth_token, logged_in |-> logged_in,
              reqs |-> <<GetLoginConfiguration>>, resps |-> <<config_response>>]
        ELSE IF login_config.value.v # "LOCAL"
        THEN [ret |-> Return(PyBool(FALSE)), auth_token |-> auth_token,
              logged_in |-> logged_in,
              reqs |-> <<GetLoginConfiguration>>, resps |-> <<config_response>>]
        ELSE IF token.kind = "raise"
        THEN [ret |-> token, auth_token |-> auth_token, logged_in |-> logged_in,
              reqs |-> <<GetLoginConfiguration, GetLoginUser>>,
              resps |-> <<config_response, token_response>>]
        ELSE [ret |-> Return(PyBool(token.value.v # None)),
              auth_token |-> token.value.v, logged_in |-> logged_in,
              reqs |-> <<GetLoginConfiguration, GetLoginUser>>,
              resps |-> <<config_response, token_response>>]

\* create the FFSQuery object and log in (old: the inline handshake)
Login ==
    /\ pc = "login"
    /\ \E c \in ConfigResponses, t \in TokenResponses :
        LET r == IF script = "new" THEN do_login(c, t) ELSE old_login(c, t)
        IN  /\ auth_token' = r.auth_token
            /\ logged_in' = r.logged_in
            /\ last' = [op |-> "do_login", arg |-> PyNone, ret |-> r.ret,
                        reqs |-> r.reqs, resps |-> r.resps]
            /\ net' = net \o Exchanges(r)
            /\ IF r.ret.kind = "raise" THEN Crash
               ELSE IF r.ret.value.v THEN pc' = "build" /\ UNCHANGED out
               ELSE Exit("Could not log in")
    /\ UNCHANGED <<query_payload, pending, script, args, query_values, results>>

\* ffs_search.py main, lines 322-334
BuildQueryNew ==
    /\ pc = "build" /\ script = "new"
    /\ IF args.search_type = "raw"
       THEN IF json_loads_str(query_values.v).kind = "raise"
            THEN Exit("Error parsing JSON input") /\ UNCHANGED <<query_payload, last>>
            ELSE /\ CallLoadQueryPayloadFromJson(json_loads_str(query_values.v).value)
                 /\ pc' = "search" /\ UNCHANGED out
       ELSE /\ CallBuildQueryPayload(
                   BuildArgs(args.search_type, query_values.v, args.source,
                             args.max_results, args.events_before, args.events_after))
            /\ IF last'.ret.kind = "raise"
               THEN Exit("Error parsing values")
               ELSE pc' = "search" /\ UNCHANGED out
    /\ UNCHANGED <<auth_token, logged_in, pending, script, args, query_values,
                   results, net>>

\* ffs-search.py main, lines 152-161: the parsed raw value becomes the query
\* whatever it is; build_query_payload is called outside any try
BuildQueryOld ==
    /\ pc = "build" /\ script = "old"
    /\ IF args.search_type = "raw"
       THEN IF json_loads_str(query_values.v).kind = "raise"
            THEN /\ Exit("Error parsing JSON input")
                 /\ query_payload' = PyDict(<<>>)
                 /\ UNCHANGED last
            ELSE /\ query_payload' = json_loads_str(query_values.v).value
                 /\ pc' = "search" /\ UNCHANGED <<out, last>>
       ELSE LET r == old_build_query_payload(args.search_type, query_values.v)
            IN  /\ query_payload' = r.query_payload
                /\ last' = [op |-> "old_build_query_payload",
                            arg |-> [search_type |-> args.search_type,
                                     search_values |-> query_values.v],
                            ret |-> r.ret, reqs |-> <<>>, resps |-> <<>>]
                /\ IF r.ret.kind = "raise" THEN Crash
                   ELSE pc' = "search" /\ UNCHANGED out
    /\ UNCHANGED <<auth_token, logged_in, pending, script, args, query_values,
                   results, net>>

\* do the search: None quits, an exception is not caught
Search ==
    /\ pc = "search"
    /\ \E resp \in SearchResponses :
        LET r == IF script = "new" THEN do_search(resp) ELSE old_do_search(resp)
        IN  /\ last' = [op |-> "do_search", arg |-> PyNone, ret |-> r.ret,
                        reqs |-> r.reqs, resps |-> r.resps]
            /\ net' = net \o Exchanges(r)
            /\ IF r.ret.kind = "raise" THEN Crash /\ UNCHANGED results
               ELSE IF r.ret.value.type = "NoneType"
               THEN Exit("Error returning results") /\ UNCHANGED results
               ELSE pc' = "output" /\ results' = r.ret.value /\ UNCHANGED out
    /\ UNCHANGED <<objvars, pending, script, args, query_values>>

\* filter_results: one attribute of every event
out_filter_mapper(sc) ==
    IF sc = "new" THEN [md5 |-> "md5Checksum", sha256 |-> "sha256Checksum"]
    ELSE [md5 |-> "md5Checksum"]

filter_results(sc, res, out_filter) ==
    IF ~has_key(res, "fileEvents") THEN Raise("KeyError")
    ELSE IF \E i \in 1..Len(res.v.fileEvents) :
                out_filter_mapper(sc)[out_filter] \notin DOMAIN res.v.fileEvents[i]
    THEN Raise("KeyError")
    ELSE Return(PyList([i \in 1..Len(res.v.fileEvents) |->
                           res.v.fileEvents[i][out_filter_mapper(sc)[out_filter]]]))

\* what is to be written: the filtered list, the count or the whole result
output_data(sc, a, res) ==
    IF a.out_filter # None
    THEN filter_results(sc, res, a.out_filter)
    ELSE IF a.count_only
    THEN IF has_key(res, "totalCount") THEN Return(PyInt(res.v.totalCount))
         ELSE Raise("KeyError")
    ELSE Return(res)

\* filter, then print or write; writing the file may fail
Output ==
    /\ pc = "output"
    /\ LET d == output_data(script, args, results)
       IN  IF d.kind = "raise" THEN Crash /\ UNCHANGED results
           ELSE /\ results' = IF args.out_filter # None THEN d.value ELSE results
                /\ IF args.out_file = None
                   THEN pc' = "done" /\ out' = Append(out, Stdout(d.value))
                   ELSE \E written \in BOOLEAN :
                        IF written
                        THEN pc' = "done" /\ out' = Append(out, File(args.out_file, d.value))
                        ELSE Exit("Error writing out_file")
    /\ UNCHANGED <<objvars, last, pending, script, args, query_values, net>>

NextMain ==
    ParseArgs \/ ReadInput \/ Login \/ BuildQueryNew \/ BuildQueryOld \/ Search \/ Output

SpecMain == InitMain /\ [][NextMain]_vars

----------------------------------------------------------------------------
(* The claims *)

\* the login-configuration lookup answered 200 with login type LOCAL
ConfigSaidLocal(resp) ==
    /\ resp.status_code = 200
    /\ resp.text.wellformed
    /\ resp.text.doc.type = "dict"
    /\ "loginType" \in DOMAIN resp.text.doc.v
    /\ resp.text.doc.v.loginType = "LOCAL"

\* C1: in a run of either script the login-user request is issued only after the
\* login-configuration lookup answered 200 with login type LOCAL; when the lookup
\* answered anything else it stays the only request of the run, the run has ended
\* and the object is not logged in.
C1_NoExchangeWithoutLocalConfig ==
    /\ \A i \in 1..Len(net) :
           net[i].req.url = "login-user" =>
               /\ i = 2
               /\ net[1].req.url = "LoginConfiguration"
               /\ ConfigSaidLocal(net[1].resp)
    /\ (Len(net) >= 1 /\ ~ConfigSaidLocal(net[1].resp)) =>
           /\ Len(net) = 1
           /\ pc \in {"exit", "crash"}
           /\ logged_in = FALSE
           /\ auth_token = None

\* C1 witness: the new script's lookup answered 200 with a login type other than
\* LOCAL, and the run quit with that lookup as its only request.
C1_Witness ==
    /\ script = "new" /\ pc = "exit" /\ Len(net) = 1
    /\ net[1].resp.status_code = 200
    /\ net[1].resp.text = JsonText(PyDict([loginType |-> "CLOUD_SSO"]))
    /\ last.op = "do_login" /\ last.ret = Return(PyBool(FALSE))

\* C2: a do_search call on an object whose logged_in flag is False sends no
\* request and does not return a result.
C2_SearchRequiresLogin ==
    (last.op = "do_search" /\ logged_in = FALSE) =>
        /\ last.reqs = <<>>
        /\ last.ret.kind = "raise" \/ last.ret.value.type = "NoneType"

\* C3: in every state logged_in = True implies that auth_token is not None.
C3_LoggedInHoldsToken == logged_in => auth_token # None

\* the number of dimensions of a build call that are not empty
NonEmptyDimensions(a) ==
    (IF a.search_values # <<>> THEN 1 ELSE 0)
    + (IF a.source # None /\ a.source # "all" THEN 1 ELSE 0)
    + (IF a.events_before # None /\ a.events_before # "" THEN 1 ELSE 0)
    + (IF a.events_after # None /\ a.events_after # "" THEN 1 ELSE 0)

BuildReturned ==
    /\ last.op = "build_query_payload"
    /\ last.ret.kind = "return"

\* C4: a build with a valid search_type returns a payload with exactly one group
\* per non-empty dimension (values, source, events_before, events_after), and the
\* key groupClause is present, with value AND, exactly when there is more than one
\* group.
C4_OneGroupPerNonEmptyDimension ==
    (BuildReturned /\ last.arg.search_type \in DOMAIN mapper) =>
        LET p == query_payload.v
        IN  /\ Len(p.groups) = NonEmptyDimensions(last.arg)
            /\ ("groupClause" \in DOMAIN p) <=> (Len(p.groups) > 1)
            /\ ("groupClause" \in DOMAIN p) => p.groupClause = "AND"

\* C5, as claimed: every group of a returned payload carries filterClause = OR.
C5_EveryGroupHasOrClause ==
    BuildReturned =>
        \A i \in 1..Len(query_payload.v.groups) :
            /\ "filterClause" \in DOMAIN query_payload.v.groups[i]
            /\ query_payload.v.groups[i].filterClause = "OR"

\* C5, amended: the value group, which is the first group, carries
\* filterClause = OR; the source, events_before and events_after groups that follow
\* carry no filterClause key.
C5_OnlyValueGroupHasOrClause ==
    BuildReturned =>
        /\ Len(query_payload.v.groups) >= 1
        /\ "filterClause" \in DOMAIN query_payload.v.groups[1]
        /\ query_payload.v.groups[1].filterClause = "OR"
        /\ \A i \in 2..Len(query_payload.v.groups) :
               "filterClause" \notin DOMAIN query_payload.v.groups[i]

\* C5 witness: a payload with all four groups has been returned.
C5_Witness ==
    /\ BuildReturned
    /\ Len(query_payload.v.groups) = 4
    /\ last.arg.search_values # <<>>

\* C6: a build (of either script) with a search_type outside the enumeration
\* raises, whatever the value list.
C6_InvalidSearchTypeRaises ==
    /\ (last.op = "build_query_payload" /\ last.arg.search_type \notin DOMAIN mapper)
           => last.ret.kind = "raise"
    /\ (last.op = "old_build_query_payload"
            /\ last.arg.search_type \notin DOMAIN old_mapper)
           => last.ret.kind = "raise"

\* the fixed table of exposure kinds
ExposureKinds == {"removable_media", "application_read", "cloud_storage"}
ExposureTable(kind) ==
    CASE kind = "removable_media" -> "RemovableMedia"
      [] kind = "application_read" -> "ApplicationRead"
      [] kind = "cloud_storage" -> "CloudStorage"

\* C7: for search_type exposure a value list with a value outside the closed set
\* makes the build raise, and otherwise every value is emitted, in order, as a
\* filter on the term exposure whose value is the table entry; for every other
\* valid search_type every value is emitted unchanged. The build returns whenever
\* no value is refused and the source is one the builder knows.
C7_ExposureValuesMapped ==
    (last.op = "build_query_payload" /\ last.arg.search_type \in DOMAIN mapper) =>
        LET a == last.arg
            n == Len(a.search_values)
            refused == /\ a.search_type = "exposure"
                       /\ \E i \in 1..n : a.search_values[i] \notin ExposureKinds
            known_source == a.source \in {None, "all", "google", "onedrive", "endpoint"}
        IN  /\ refused => last.ret.kind = "raise"
            /\ (~refused /\ known_source) => last.ret.kind = "return"
            /\ (last.ret.kind = "return" /\ n > 0) =>
                   LET fs == query_payload.v.groups[1].filters
                   IN  /\ Len(fs) = n
                       /\ \A i \in 1..n :
                              fs[i].value = IF a.search_type = "exposure"
                                            THEN ExposureTable(a.search_values[i])
                                            ELSE a.search_values[i]

\* C7 witness: an exposure build of two different kinds has returned.
C7_Witness ==
    /\ BuildReturned
    /\ last.arg.search_type = "exposure"
    /\ last.arg.search_values = <<"cloud_storage", "application_read">>

\* C8: a load_query_payload_from_json call with a dict stores exactly that dict
\* and returns True; a call with anything else returns False, leaves query_payload
\* as it was and so never stores its input.
C8_LoadIsIdentityOrRefusal ==
    [][last'.op = "load_query_payload_from_json" =>
          IF last'.arg.type = "dict"
          THEN /\ query_payload' = last'.arg
               /\ last'.ret = Return(PyBool(TRUE))
          ELSE /\ query_payload' = query_payload
               /\ query_payload'.type # last'.arg.type
               /\ last'.ret = Return(PyBool(FALSE))]_vars

\* C8 witness: a list was refused while an earlier loaded query stayed in place.
C8_Witness ==
    /\ last.op = "load_query_payload_from_json"
    /\ last.arg = PyList(<<"groups">>)
    /\ last.ret = Return(PyBool(FALSE))
    /\ query_payload = RawQuery1

\* C9: in a run of ffs_search.py a max_results outside 1..10000 is rejected by the
\* sanity checks: the run quits with no query built and no request sent. Accepted
\* values reach the payload unchanged.
C9_MaxResultsOutsideRangeRejected ==
    script = "new" =>
        /\ (args.max_results \notin 1..10000 /\ pc # "start") =>
               /\ pc = "exit"
               /\ query_payload = NoAttr
               /\ net = <<>>
        /\ (pc = "search" /\ args.search_type # "raw") =>
               /\ query_payload.v.pgNum = 1
               /\ query_payload.v.pgSize = args.max_results

Is2xx(status) == status \in 200..299

TokenGranted(resp) ==
    /\ resp.status_code = 200
    /\ resp.text.wellformed
    /\ resp.text.doc.type = "dict"
    /\ "v3_user_token" \in DOMAIN resp.text.doc.v
    /\ resp.text.doc.v.v3_user_token # None

\* the run's first two requests are the two handshake calls, both answered well
HandshakeSucceeded ==
    /\ Len(net) >= 2
    /\ net[1].req.url = "LoginConfiguration" /\ ConfigSaidLocal(net[1].resp)
    /\ net[2].req.url = "login-user" /\ TokenGranted(net[2].resp)

\* the run's third request is the search POST, answered 200 with a JSON result
SearchSucceeded ==
    /\ Len(net) = 3
    /\ net[3].req.method = "POST"
    /\ net[3].resp.status_code = 200
    /\ net[3].resp.text.wellformed
    /\ net[3].resp.text.doc.type # "NoneType"

\* the run has come to its projection and output step: it is about to run, has
\* finished, or has left its data or its write error in the output
OutputReached ==
    \/ pc \in {"output", "done"}
    \/ \E i \in 1..Len(out) :
           \/ out[i].to # "stdout"
           \/ out[i].data.type # "str"
           \/ out[i].data.type = "str" /\ out[i].data.v = "Error writing out_file"

\* C11: in every run of either script the steps come in the order authenticate,
\* build query, search, output. A query is stored only after both handshake calls
\* succeeded; the search POST is the third and last request of the run, sent only
\* after the handshake succeeded and with the stored query as its body and the
\* granted token in its header (in ffs_search.py the query is always a dict); and
\* the output step is reached only after the search POST was answered 200 with a
\* result.
C11_PipelineOrder ==
    /\ Len(net) <= 3
    /\ \A i \in 1..Len(net) :
           net[i].req.method = "POST" =>
               /\ i = 3
               /\ HandshakeSucceeded
               /\ query_payload # NoAttr
               /\ net[i].req.json = query_payload
               /\ net[i].req.authorization = net[2].resp.text.doc.v.v3_user_token
               /\ script = "new" => query_payload.type = "dict"
    /\ query_payload # NoAttr => HandshakeSucceeded
    /\ OutputReached => (SearchSucceeded /\ results.type # "NoneType")

\* C11 witness: a run of ffs_search.py went through all four steps: three
\* requests, the third a POST, and the result written out.
C11_Witness ==
    /\ script = "new" /\ pc = "done"
    /\ Len(net) = 3 /\ net[3].req.method = "POST"
    /\ Len(out) = 1 /\ out[1].data.type = "dict"

\* the last call of the run reported a failure: do_login returned False, a build
\* raised, load_query_payload_from_json returned False, or do_search returned None
StepReportedFailure ==
    \/ last.op = "do_login" /\ last.ret = Return(PyBool(FALSE))
    \/ last.op \in {"build_query_payload", "old_build_query_payload"}
           /\ last.ret.kind = "raise"
    \/ last.op = "load_query_payload_from_json" /\ last.ret = Return(PyBool(FALSE))
    \/ last.op = "do_search" /\ last.ret = Return(PyNone)

\* C12: a failure is terminal: no step of the run is taken from a state in which
\* the last call made reported a failure, so no later pipeline step (do_search and
\* output in particular) is executed.
C12_NoStepAfterFailure == [][~StepReportedFailure]_vars

\* the number of optional groups a build call asks for
OptionalDimensions(a) ==
    (IF a.source # None /\ a.source # "all" THEN 1 ELSE 0)
    + (IF a.events_before # None /\ a.events_before # "" THEN 1 ELSE 0)
    + (IF a.events_after # None /\ a.events_after # "" THEN 1 ELSE 0)

\* C13: over any sequence of calls on one object the stored payload is the result
\* of the most recent successful build or load. Step by step: a build that returns
\* stores exactly the payload it returns, with the value group and the optional
\* groups of this call only; a load that returns True stores its argument; a build
\* that raises and a load that returns False leave query_payload as it was; and
\* do_search submits query_payload and leaves it as it was.
C13_PayloadIsLastSuccessfulResult ==
    [][/\ (last'.op = "build_query_payload" /\ last'.ret.kind = "return") =>
              /\ query_payload' = last'.ret.value
              /\ Len(query_payload'.v.groups) = 1 + OptionalDimensions(last'.arg)
       /\ (last'.op = "load_query_payload_from_json"
               /\ last'.ret = Return(PyBool(TRUE))) =>
              query_payload' = last'.arg
       /\ (last'.op = "build_query_payload" /\ last'.ret.kind = "raise") =>
              query_payload' = query_payload
       /\ (last'.op = "load_query_payload_from_json"
               /\ last'.ret = Return(PyBool(FALSE))) =>
              query_payload' = query_payload
       /\ (last'.op = "do_search" /\ last'.reqs # <<>>) =>
              /\ last'.reqs[1].json = query_payload
              /\ query_payload' = query_payload]_vars

====
